---- MODULE Spec2Model ----
(***************************************************************************)
(* Historical-weather acquisition of WeatherApp: the sliding-window        *)
(* RateLimiter, the per-day fetch, the concurrent range fetch on a thread  *)
(* pool (historical_data_fetch.py), the SQLite cache (db_cache.py) and the *)
(* historical branch of the "Get Weather" handler (WeatherApp.py).         *)
(*                                                                         *)
(* Time is counted in units of 10 ms, the size of the limiter's safety     *)
(* margin, so that 60 s is 6000 units.  Threads interleave between any two *)
(* accesses of shared state, as CPython threads do: RateLimiter takes no   *)
(* lock.                                                                   *)
(***************************************************************************)
EXTENDS Integers, Sequences, FiniteSets, TLC

\* ------------------------------------------------------------------ bounds
\* The source runs 10 workers, 60 calls per minute and 240 calls per range;
\* the model runs the same code at sizes a model checker can enumerate and
\* keeps their order: workers <= calls per minute < calls per range.
max_workers == 2
calls_per_minute == 2
max_total_calls == 3
\* Longest range a request may ask for: one day more than the call ceiling.
MaxDays == max_total_calls + 1
\* How many times the clock may be seen to have advanced between two reads.
MaxTicks == 1
\* Requests of one session in SpecSession.
MaxRequests == 2
\* Calls of db_cache one client makes in SpecCache, and how often it lets
\* time pass between them.
MaxCalls == 3
MaxWaits == 2

\* ------------------------------------------------------- program constants
interval == 6000
buffer == 1
\* st.cache_data(ttl=3600)
ttl == 360000
\* db_cache.CACHE_DURATION_SECONDS, in seconds as the column fetch_ts is.
CACHE_DURATION_SECONDS == 43200

VARIABLES
    clock,              \* time.time(), in units of 10 ms
    ticks,              \* how often the clock has advanced on its own
    limiters,           \* RateLimiter objects built so far: their calls_timestamps
    admitted,           \* history: every timestamp ever appended, with its limiter
    mpc,                \* position of the request thread
    coord,              \* (lat, lon) of the request
    ranges,             \* the ranges <<start, end>> the user may request (scenario)
    budget,             \* requests the user may still issue (scenario)
    utcoffset,          \* seconds the machine's local time is ahead of UTC
    start_date,         \* first day of the requested range
    end_date,           \* last day of the requested range
    raw_data,           \* historical_temps_raw_data of the handler
    all_timestamps,     \* noon instants of the range, in order
    idx,                \* position of the submission loop in all_timestamps
    calls_made,
    api_key,            \* the api_key argument of the range fetch
    rate_limiter,       \* the RateLimiter of the running range fetch (index in limiters)
    num_threads,        \* threads the pool has spawned
    futures,            \* the submitted calls, in submission order
    yielded,            \* futures as_completed has handed to the collector
    results,
    api_fetched_data,   \* what the range fetch returned to the handler
    st_cache,           \* st.cache_data memo of cached_historical_fetch
    weather_cache,      \* rows of table weather_cache, by primary key
    printed,            \* kinds of messages written so far
    API_KEY,            \* os.getenv("OPENWEATHER_API_KEY") of the process (scenario)
    bodies,             \* what a GET of the endpoint may produce (scenario)
    peer,               \* the handler of another session of the process
    st_message,         \* what the handler surfaced for the last request
    historical_temps,   \* st.session_state.historical_temps
    db_calls,           \* history: calls of db_cache the handler has made
    history,            \* history: the finished requests, oldest first
    weather_data,       \* st.session_state.weather_data
    onecall_gets,       \* history: GETs of the onecall endpoint
    db_call             \* history: the last call a client made of db_cache itself

limiterVars == <<limiters, admitted>>
fetchVars == <<all_timestamps, idx, calls_made, rate_limiter, num_threads, futures,
               yielded, results, api_key>>
handlerVars == <<coord, ranges, budget, utcoffset, start_date, end_date, raw_data, api_fetched_data,
                 st_cache, weather_cache>>
envVars == <<API_KEY, bodies, peer>>
sessionVars == <<st_message, historical_temps, db_calls, history>>
currentVars == <<weather_data, onecall_gets, db_call>>
vars == <<clock, ticks, limiterVars, mpc, fetchVars, handlerVars, printed, envVars,
          sessionVars, currentVars>>

\* --------------------------------------------------------- Python values
Min(a, b) == IF a < b THEN a ELSE b
Max(a, b) == IF a > b THEN a ELSE b
Range(s) == {s[i] : i \in DOMAIN s}

None == [kind |-> "None", keys |-> {}, data |-> <<>>]
Dict(keys, data) == [kind |-> "dict", keys |-> keys, data |-> data]
\* Python truth of a decoded JSON body: None and the empty dict are false.
Truthy(v) == v.kind = "dict" /\ v.keys # {}

EmptyDict == [k \in {} |-> None]
DictSet(d, k, v) == [x \in DOMAIN d \cup {k} |-> IF x = k THEN v ELSE d[x]]

\* ------------------------------------------------------------- calendar
Days == 1 .. MaxDays
\* datetime(y, m, d, 12, 0, 0, tzinfo=timezone.utc).timestamp()
Noon(d) == d * 86400 + 43200
\* datetime(y, m, d, 0, 0, 0).timestamp(): midnight of the machine's zone
Midnight(d) == d * 86400 - utcoffset
\* datetime.fromtimestamp(ts, tz=timezone.utc).date()
UtcDate(ts) == ts \div 86400

\* Coordinates a request may resolve to.
Coords == {"c1"}

\* ------------------------------------------------------- external world
\* What one GET of the timemachine endpoint can produce.
HttpOutcomes == {"ok", "ok_no_data", "ok_empty", "bad_json", "http_error", "net_error"}
\* The answers of the endpoint the series scenarios draw from: days with
\* other samples, with samples that carry no temperature, with no samples.
SeriesOutcomes == {"ok", "ok_alt", "ok_no_temp", "ok_empty_data", "ok_no_data", "net_error"}
\* One hourly sample of data['data']; temperatures in tenths of a degree.
Hour(temp) == [keys |-> {"dt", "temp"}, temp |-> temp]
HourNoTemp == [keys |-> {"dt"}, temp |-> 0]
\* Hourly samples the endpoint reports for a day.
Samples == <<Hour(100), Hour(120)>>
SamplesAlt == <<Hour(100), HourNoTemp, Hour(120), Hour(130)>>
\* response.json() of a 200 response.
JsonBody(outcome) ==
    CASE outcome = "ok" -> Dict({"data"}, Samples)
      [] outcome = "ok_alt" -> Dict({"data"}, SamplesAlt)
      [] outcome = "ok_no_temp" -> Dict({"data"}, <<HourNoTemp>>)
      [] outcome = "ok_empty_data" -> Dict({"data"}, <<>>)
      [] outcome = "ok_no_data" -> Dict({"message"}, <<>>)
      [] OTHER -> Dict({}, <<>>)

\* ---------------------------------------------------------- futures
NoResult == [kind |-> "pending", data |-> None, exc |-> "", ts |-> 0]
Returned(ts, data) == [kind |-> "ret", data |-> data, exc |-> "", ts |-> ts]
Raised(e) == [kind |-> "exc", data |-> None, exc |-> e, ts |-> 0]

\* executor.submit(get_historical_weather_for_day, lat, lon, ts, api_key, rate_limiter);
\* slots and gets count the timestamps the call has recorded and its GETs.
NewFuture(ts, rl) ==
    [ts |-> ts, rl |-> rl, pc |-> "queued", now |-> 0, wake |-> 0,
     slots |-> 0, gets |-> 0, res |-> NoResult]

Finish(f, r) == [f EXCEPT !.pc = "done", !.now = 0, !.wake = 0, !.res = r]

Running(i) == futures[i].pc \notin {"queued", "done"}
RunningSet == {i \in DOMAIN futures : Running(i)}
Queued == {i \in DOMAIN futures : futures[i].pc = "queued"}
Done == {i \in DOMAIN futures : futures[i].pc = "done"}

\* No call of db_cache made yet.
NoCall == [op |-> "none"]

\* ------------------------------------------------------------ Init
Scenario(allowed, requests, zones) ==
    /\ ranges = allowed
    /\ budget = requests
    /\ utcoffset \in zones

\* The environment of the process: its API key and the endpoint's answers.
Environment(keys, outcomes) ==
    /\ API_KEY \in keys
    /\ bodies = outcomes

InitState ==
    /\ clock = 0
    /\ ticks = 0
    /\ limiters = <<>>
    /\ admitted = <<>>
    /\ mpc = "idle"
    /\ coord = "none"
    /\ start_date = 0
    /\ end_date = 0
    /\ raw_data = EmptyDict
    /\ all_timestamps = <<>>
    /\ idx = 0
    /\ calls_made = 0
    /\ rate_limiter = 0
    /\ api_key = ""
    /\ num_threads = 0
    /\ futures = <<>>
    /\ yielded = {}
    /\ results = EmptyDict
    /\ api_fetched_data = EmptyDict
    /\ st_cache = EmptyDict
    /\ weather_cache = EmptyDict
    /\ printed = {}
    /\ st_message = "none"
    /\ peer = [pc |-> "idle", coord |-> "none", start_date |-> 0, end_date |-> 0,
               raw_data |-> EmptyDict, api_fetched_data |-> EmptyDict]
    /\ historical_temps = <<>>
    /\ db_calls = 0
    /\ history = <<>>
    /\ weather_data = None
    /\ onecall_gets = 0
    /\ db_call = NoCall

\* One request for a range of one to MaxDays days, on an empty cache.
Init ==
    /\ InitState
    /\ Scenario({<<1, e>> : e \in Days}, 1, {0})
    /\ Environment({"", "key"}, HttpOutcomes)

\* ------------------------------------------------------- RateLimiter
\* RateLimiter(calls_per_minute=60): an empty deque of timestamps.
NewRateLimiter == <<>>

\* Between two reads of the clock no time, 10 ms or a whole interval may pass.
Elapsed == {0} \cup (IF ticks < MaxTicks THEN {1, interval} ELSE {})

LimiterPcs == {"now", "trim", "head", "pop", "check", "append", "wait", "sleep"}

Expired(ts, now) == ts <= now - interval
HasSlot(w) == Len(w) < calls_per_minute
\* time_to_wait of line 33.
TimeToWait(w, now) == w[1] - (now - interval) + buffer

\* One step of thread f in wait_for_slot on window w at time t: the thread's
\* new state, the new window and what it appended.  Each step is one access
\* of the shared deque or of the clock.
Slot(f, w, t) ==
    CASE f.pc = "now" ->     \* line 23
            [f |-> [f EXCEPT !.pc = "trim", !.now = t], w |-> w, adm |-> <<>>]
      [] f.pc = "trim" ->    \* line 25, `self.calls_timestamps and ...`
            [f |-> [f EXCEPT !.pc = IF w = <<>> THEN "check" ELSE "head"],
             w |-> w, adm |-> <<>>]
      [] f.pc = "head" ->    \* line 25, `self.calls_timestamps[0] <= now - self.interval`
            [f |-> IF w = <<>> THEN Finish(f, Raised("IndexError"))
                   ELSE [f EXCEPT !.pc = IF Expired(w[1], f.now) THEN "pop" ELSE "check"],
             w |-> w, adm |-> <<>>]
      [] f.pc = "pop" ->     \* line 26
            IF w = <<>>
            THEN [f |-> Finish(f, Raised("IndexError")), w |-> w, adm |-> <<>>]
            ELSE [f |-> [f EXCEPT !.pc = "trim"], w |-> Tail(w), adm |-> <<>>]
      [] f.pc = "check" ->   \* line 28
            [f |-> [f EXCEPT !.pc = IF HasSlot(w) THEN "append" ELSE "wait"],
             w |-> w, adm |-> <<>>]
      [] f.pc = "append" ->  \* lines 29-30
            [f |-> [f EXCEPT !.pc = "http", !.slots = @ + 1], w |-> Append(w, f.now),
             adm |-> <<[rl |-> f.rl, t |-> f.now]>>]
      [] f.pc = "wait" ->    \* lines 33-34: time.sleep rejects a negative length
            [f |-> IF w = <<>> THEN Finish(f, Raised("IndexError"))
                   ELSE IF TimeToWait(w, f.now) < 0 THEN Finish(f, Raised("ValueError"))
                   ELSE [f EXCEPT !.pc = "sleep", !.wake = t + TimeToWait(w, f.now)],
             w |-> w, adm |-> <<>>]
      [] f.pc = "sleep" ->   \* line 34 returns: back to line 22
            [f |-> [f EXCEPT !.pc = "now", !.wake = 0], w |-> w, adm |-> <<>>]

\* RateLimiter.wait_for_slot, one step of the thread running future i.
wait_for_slot(i) ==
    /\ i \in DOMAIN futures
    /\ futures[i].pc \in LimiterPcs
    /\ \E d \in (IF futures[i].pc = "now" THEN Elapsed ELSE {0}) :
         LET f == futures[i]
             t == IF f.pc = "sleep" THEN Max(clock, f.wake) ELSE clock + d
             s == Slot(f, limiters[f.rl], t)
         IN  /\ clock' = t
             /\ ticks' = IF d > 0 THEN ticks + 1 ELSE ticks
             /\ futures' = [futures EXCEPT ![i] = s.f]
             /\ limiters' = [limiters EXCEPT ![f.rl] = s.w]
             /\ admitted' = admitted \o s.adm
    /\ UNCHANGED <<mpc, all_timestamps, idx, calls_made, rate_limiter, api_key, num_threads,
                   yielded, results, handlerVars, printed, envVars, currentVars, sessionVars>>

\* ------------------------------------------------------- DayFetcher
\* requests.get + raise_for_status + response.json() of lines 41-46: what the
\* call returns.  Every failure of the GET is a RequestException
\* (ConnectionError, Timeout, HTTPError, and the JSONDecodeError that
\* requests 2.27 and later raise for a body that is no JSON).
FetchResult(ts, outcome) ==
    IF outcome \in {"ok", "ok_alt", "ok_no_temp", "ok_empty_data", "ok_no_data", "ok_empty"}
    THEN Returned(ts, JsonBody(outcome))
    ELSE Returned(ts, None)

\* get_historical_weather_for_day after its wait_for_slot: lines 39-46.
get_historical_weather_for_day(i) ==
    /\ i \in DOMAIN futures
    /\ futures[i].pc = "http"
    /\ \E outcome \in bodies :
         /\ futures' = [futures EXCEPT ![i] =
                Finish([futures[i] EXCEPT !.gets = @ + 1],
                       FetchResult(futures[i].ts, outcome))]
         /\ printed' = IF outcome \in {"bad_json", "http_error", "net_error"}
                       THEN printed \cup {"fetch_error"} ELSE printed
    /\ UNCHANGED <<clock, ticks, limiterVars, mpc, all_timestamps, idx, calls_made,
                   rate_limiter, api_key, num_threads, yielded, results, handlerVars, envVars, currentVars,
                   sessionVars>>

\* ------------------------------------------------------- thread pool
\* Mutant: a thread is spawned for every submitted call.
AdjustThreadCount_unbounded(n) == n + 1

\* ThreadPoolExecutor(max_workers=10).submit: a thread is spawned while the
\* pool has fewer than max_workers.
AdjustThreadCount(n) == IF n < max_workers THEN n + 1 ELSE n

\* Mutant: the call goes to its GET without asking the limiter.
Work_no_limiter(i) ==
    /\ i \in Queued
    /\ \A j \in Queued : i <= j
    /\ Cardinality(RunningSet) < num_threads
    /\ futures' = [futures EXCEPT ![i].pc = "http"]
    /\ UNCHANGED <<clock, ticks, limiterVars, mpc, all_timestamps, idx, calls_made,
                   rate_limiter, api_key, num_threads, yielded, results, handlerVars, printed,
                   envVars, currentVars, sessionVars>>

\* A pool thread takes the oldest queued call and enters line 38.
Work(i) ==
    /\ i \in Queued
    /\ \A j \in Queued : i <= j
    /\ Cardinality(RunningSet) < num_threads
    /\ futures' = [futures EXCEPT ![i].pc = "now"]
    /\ UNCHANGED <<clock, ticks, limiterVars, mpc, all_timestamps, idx, calls_made,
                   rate_limiter, api_key, num_threads, yielded, results, handlerVars, printed,
                   envVars, currentVars, sessionVars>>

\* ------------------------------------------------------- cache adapter
RowKey(c, data_ts) == <<c, data_ts>>

\* The data column: the JSON text of a value, or no text (NULL, '').
json_dumps(v) == [text |-> TRUE, value |-> v]
NoText == [text |-> FALSE, value |-> None]
json_loads(t) == t.value

\* Mutant: rows of every coordinate are selected.
get_cache_for_range_any(cache, c, start_ts, end_ts) ==
    LET keys == {k \in DOMAIN cache :
                    /\ start_ts <= k[2] /\ k[2] <= end_ts
                    /\ cache[k].data.text}
    IN  [ts \in {k[2] : k \in keys} |->
            json_loads(cache[CHOOSE k \in keys : k[2] = ts].data)]

\* Mutant: the bounds of the range are excluded.
get_cache_for_range_strict(cache, c, start_ts, end_ts) ==
    LET keys == {k \in DOMAIN cache :
                    /\ k[1] = c
                    /\ start_ts < k[2] /\ k[2] < end_ts
                    /\ cache[k].data.text}
    IN  [ts \in {k[2] : k \in keys} |-> json_loads(cache[RowKey(c, ts)].data)]

\* db_cache.get_cache_for_range: rows of the coordinate with data_ts BETWEEN
\* the bounds and a non-empty data column, keyed by data_ts.
get_cache_for_range(cache, c, start_ts, end_ts) ==
    LET keys == {k \in DOMAIN cache :
                    /\ k[1] = c
                    /\ start_ts <= k[2] /\ k[2] <= end_ts
                    /\ cache[k].data.text}
    IN  [ts \in {k[2] : k \in keys} |-> json_loads(cache[RowKey(c, ts)].data)]

\* int(time.time()) when the clock reads now: whole seconds since the epoch.
\* The run starts at the midnight that follows the last day of Days.
Epoch == (MaxDays + 1) * 86400
time_time(now) == Epoch + now \div 100

\* Mutant: INSERT OR IGNORE, a row that exists is kept.
set_cache_ignore(cache, c, location, data, data_ts, now) ==
    IF RowKey(c, data_ts) \in DOMAIN cache THEN cache
    ELSE DictSet(cache, RowKey(c, data_ts),
                 [fetch_ts |-> time_time(now), loc |-> location, data |-> json_dumps(data)])

\* db_cache.set_cache: REPLACE INTO on the primary key (lat, lon, data_ts).
set_cache(cache, c, location, data, data_ts, now) ==
    DictSet(cache, RowKey(c, data_ts),
            [fetch_ts |-> time_time(now), loc |-> location, data |-> json_dumps(data)])

\* target_data_ts=None, and lat=None, lon=None.
NoTarget == -1
NoCoord == "none"
\* ORDER BY fetch_ts DESC LIMIT 1 over the rows `rows`: a row no other row is
\* newer than; SQLite may hand over any of several equally new ones.
Latest(cache, rows) ==
    {k \in rows : \A j \in rows : cache[j].fetch_ts <= cache[k].fetch_ts}
\* The SELECT of lines 62-74 for coordinate c.
Selected(cache, c, target_data_ts, now) ==
    IF target_data_ts = NoTarget
    THEN Latest(cache, {k \in DOMAIN cache :
                          /\ k[1] = c
                          /\ cache[k].fetch_ts > time_time(now) - CACHE_DURATION_SECONDS})
    ELSE {k \in DOMAIN cache : k = RowKey(c, target_data_ts)}
\* Line 76.
Loaded(cache, rows) ==
    IF rows = {} THEN {None}
    ELSE {IF cache[k].data.text THEN json_loads(cache[k].data) ELSE None : k \in rows}

\* Mutant: a row of a given data_ts expires like the others.
get_cache_expiring(cache, c, target_data_ts, location, now) ==
    Loaded(cache, {k \in Selected(cache, c, target_data_ts, now) :
                      cache[k].fetch_ts > time_time(now) - CACHE_DURATION_SECONDS})

\* db_cache.get_cache: what the call may return.  Without a coordinate the
\* newest row of the location names it (lines 52-60).
get_cache(cache, c, target_data_ts, location, now) ==
    LET named == Latest(cache, {k \in DOMAIN cache : cache[k].loc = location})
        cs == IF c # NoCoord THEN {c}
              ELSE IF location # "" THEN {k[1] : k \in named}
              ELSE {}
    IN  IF cs = {} THEN {None}
        ELSE UNION {Loaded(cache, Selected(cache, x, target_data_ts, now)) : x \in cs}

\* ------------------------------------------------------- range fetch
\* Lines 70-76: the noon-UTC instant of every day from start to end.
AllTimestamps(s, e) == [k \in 1 .. (IF e >= s THEN e - s + 1 ELSE 0) |-> Noon(s + k - 1)]

MemoKey(c, s, e) == <<c, s, e>>
\* st.cache_data(ttl=3600): a memoised value answers until it is an hour old.
MemoAlive(memo, key, now) == key \in DOMAIN memo /\ now - memo[key].at <= ttl

\* What the user may enter as location, and what the geocoding GET answers.
LocationInputs == {"", "city", "gps", "gps_bad"}
GeoResponses == {"found", "not_found", "exception"}

\* Mutant: the API key is not looked at.
Resolve_any_key(key, loc, geo) ==
    IF loc = "" THEN "no_location"
    ELSE IF loc = "gps_bad" THEN "bad_gps"
    ELSE IF loc = "gps" THEN "resolved"
    ELSE CASE geo = "found" -> "resolved"
           [] geo = "not_found" -> "not_found"
           [] OTHER -> "error"

\* WeatherApp.py lines 107-143 and the except clauses of lines 277-280: how
\* the handler leaves the location step.
Resolve(key, loc, geo) ==
    IF loc = "" THEN "no_location"               \* lines 107-109
    ELSE IF key = "" THEN "no_api_key"           \* lines 110-112
    ELSE IF loc = "gps_bad" THEN "bad_gps"       \* lines 129-131
    ELSE IF loc = "gps" THEN "resolved"          \* lines 124-128
    ELSE CASE geo = "found" -> "resolved"        \* lines 136-140
           [] geo = "not_found" -> "not_found"   \* lines 141-143
           [] OTHER -> "error"                   \* lines 277-280

\* The "Get Weather" button up to the end of the location step, lines 101-143.
GetWeather(loc, geo, c) ==
    /\ mpc = "idle"
    /\ budget > 0
    /\ budget' = budget - 1
    /\ historical_temps' = <<>>
    /\ weather_data' = None
    /\ LET r == Resolve(API_KEY, loc, geo)
       IN  IF r = "resolved"
           THEN /\ mpc' = "resolved"
                /\ coord' = c
                /\ st_message' = "none"
           ELSE /\ mpc' = mpc
                /\ coord' = "none"
                /\ st_message' = r
    /\ UNCHANGED <<clock, ticks, limiterVars, fetchVars, ranges, utcoffset, start_date,
                   end_date, raw_data, api_fetched_data, st_cache, weather_cache, printed,
                   envVars, onecall_gets, db_call, db_calls, history>>

\* The historical branch up to the call of the range fetch (WeatherApp.py
\* lines 171-229) and, when the memo of st.cache_data does not answer, the
\* entry of get_historical_weather_in_range_concurrently (lines 63-85).
Request(c, s, e) ==
    /\ mpc = "resolved"
    /\ coord = c
    /\ <<s, e>> \in ranges
    /\ LET cached == get_cache_for_range(weather_cache, c, Midnight(s), Midnight(e))
           missing_dates == {d \in s .. e : Midnight(d) \notin DOMAIN cached}
           memo == MemoKey(c, s, e)
       IN  /\ db_calls' = db_calls + 1
           /\ api_key' = API_KEY
           /\ start_date' = s
           /\ end_date' = e
           /\ raw_data' = cached
           /\ yielded' = {}
           /\ futures' = <<>>
           /\ results' = EmptyDict
           /\ calls_made' = 0
           /\ idx' = 0
           /\ num_threads' = 0
           /\ IF missing_dates = {}
              THEN /\ api_fetched_data' = EmptyDict
                   /\ mpc' = "merge"
                   /\ all_timestamps' = <<>>
                   /\ UNCHANGED <<limiters, rate_limiter, printed>>
              ELSE IF MemoAlive(st_cache, memo, clock)
              THEN /\ api_fetched_data' = st_cache[memo].value
                   /\ mpc' = "merge"
                   /\ all_timestamps' = <<>>
                   /\ UNCHANGED <<limiters, rate_limiter, printed>>
              ELSE /\ api_fetched_data' = EmptyDict
                   /\ mpc' = "submit"
                   /\ all_timestamps' = AllTimestamps(s, e)
                   /\ limiters' = Append(limiters, NewRateLimiter)
                   /\ rate_limiter' = Len(limiters) + 1
                   /\ printed' = printed \cup {"timestamp"}
    /\ UNCHANGED <<clock, ticks, admitted, coord, ranges, budget, utcoffset, st_cache,
                   weather_cache, envVars, currentVars, st_message, historical_temps, history>>

\* Mutants: no ceiling at all; a ceiling that stops one call too early.
CeilingReached_never(made) == FALSE
CeilingReached_early(made) == made >= max_total_calls - 1

\* Line 88: the ceiling on submitted calls.
CeilingReached(made) == made >= max_total_calls

\* One iteration of the submission loop, lines 87-91, or its end.
Submit ==
    /\ mpc = "submit"
    /\ IF idx < Len(all_timestamps) /\ ~CeilingReached(calls_made)
       THEN /\ futures' = Append(futures, NewFuture(all_timestamps[idx + 1], rate_limiter))
            /\ num_threads' = AdjustThreadCount(num_threads)
            /\ calls_made' = calls_made + 1
            /\ idx' = idx + 1
            /\ mpc' = mpc
       ELSE /\ mpc' = "collect"
            /\ UNCHANGED <<futures, num_threads, calls_made, idx>>
    /\ UNCHANGED <<clock, ticks, limiterVars, all_timestamps, rate_limiter, api_key, yielded,
                   results, handlerVars, printed, envVars, currentVars, sessionVars>>

\* Mutants: a future that raised empties the results, as an exception leaving
\* the loop would; the results keep the latest record only.
Collected_abort(res, r) ==
    IF r.kind = "exc" THEN EmptyDict
    ELSE IF Truthy(r.data) THEN DictSet(res, r.ts, r.data) ELSE res
Collected_latest(res, r) ==
    IF r.kind = "ret" /\ Truthy(r.data) THEN DictSet(EmptyDict, r.ts, r.data) ELSE res

\* Lines 95-103 on one finished future: the results after it, and the message.
Collected(res, r) ==
    IF r.kind = "ret" /\ Truthy(r.data) THEN DictSet(res, r.ts, r.data) ELSE res
CollectMessage(r) ==
    IF r.kind = "exc" THEN {"future_exc"}
    ELSE IF Truthy(r.data) THEN {} ELSE {"skip"}

\* as_completed hands over any finished future not yet handed over.
Collect(i) ==
    /\ mpc = "collect"
    /\ i \in Done \ yielded
    /\ yielded' = yielded \cup {i}
    /\ results' = Collected(results, futures[i].res)
    /\ printed' = printed \cup CollectMessage(futures[i].res)
    /\ UNCHANGED <<clock, ticks, limiterVars, mpc, all_timestamps, idx, calls_made,
                   rate_limiter, api_key, num_threads, futures, handlerVars, envVars, currentVars, sessionVars>>

\* Mutant: the fetch returns while calls are still running.
Return_early ==
    /\ mpc = "collect"
    /\ api_fetched_data' = results
    /\ st_cache' = DictSet(st_cache, MemoKey(coord, start_date, end_date),
                           [value |-> results, at |-> clock])
    /\ mpc' = "merge"
    /\ UNCHANGED <<clock, ticks, limiterVars, fetchVars, coord, ranges, budget, utcoffset,
                   start_date, end_date, raw_data, weather_cache, printed, envVars, currentVars,
                   sessionVars>>

\* Line 104 once as_completed is exhausted and the pool is shut down; the
\* memo of st.cache_data keeps the value (WeatherApp.py lines 223-229).
Return ==
    /\ mpc = "collect"
    /\ yielded = DOMAIN futures
    /\ api_fetched_data' = results
    /\ st_cache' = DictSet(st_cache, MemoKey(coord, start_date, end_date),
                           [value |-> results, at |-> clock])
    /\ mpc' = "merge"
    /\ UNCHANGED <<clock, ticks, limiterVars, fetchVars, coord, ranges, budget, utcoffset,
                   start_date, end_date, raw_data, weather_cache, printed, envVars, currentVars,
                   sessionVars>>

\* ------------------------------------------------------- merge
\* Line 235: the cache key of a returned instant.
DbKey(timestamp_unix) == Midnight(UtcDate(timestamp_unix))
\* Mutant: every returned instant is merged, cached day or not.
NewInstants_all(fetched, raw) == DOMAIN fetched

\* Instants whose day the in-memory map does not hold yet (line 237).
NewInstants(fetched, raw) == {ts \in DOMAIN fetched : DbKey(ts) \notin DOMAIN raw}

\* Mutant: the map is replaced by the fetched days.
MergedRaw_replace(fetched, raw) ==
    [k \in {DbKey(ts) : ts \in DOMAIN fetched} |->
        fetched[CHOOSE ts \in DOMAIN fetched : DbKey(ts) = k]]

\* WeatherApp.py lines 232-242: the in-memory map and the table after the
\* merge of the fetched days.
MergedRaw(fetched, raw) ==
    LET new == NewInstants(fetched, raw)
    IN  [k \in DOMAIN raw \cup {DbKey(ts) : ts \in new} |->
            IF k \in DOMAIN raw THEN raw[k]
            ELSE fetched[CHOOSE ts \in new : DbKey(ts) = k]]
MergedCache(cache, c, location, fetched, raw, now) ==
    LET new == NewInstants(fetched, raw)
    IN  [k \in DOMAIN cache \cup {RowKey(c, DbKey(ts)) : ts \in new} |->
            IF \E ts \in new : k = RowKey(c, DbKey(ts))
            THEN set_cache(cache, c, location,
                           fetched[CHOOSE ts \in new : k = RowKey(c, DbKey(ts))],
                           k[2], now)[k]
            ELSE cache[k]]

Merge ==
    /\ mpc = "merge"
    /\ raw_data' = MergedRaw(api_fetched_data, raw_data)
    /\ weather_cache' = MergedCache(weather_cache, coord, coord, api_fetched_data,
                                    raw_data, clock)
    /\ db_calls' = db_calls + Cardinality(NewInstants(api_fetched_data, raw_data))
    /\ mpc' = "assemble"
    /\ UNCHANGED <<clock, ticks, limiterVars, fetchVars, coord, ranges, budget, utcoffset,
                   start_date, end_date, api_fetched_data, st_cache, printed, envVars, currentVars,
                   st_message, historical_temps, history>>

\* ------------------------------------------------------- series
\* temps_for_day of line 256.
TempsForDay(day_data) ==
    LET with_temp == SelectSeq(day_data.data, LAMBDA hour : "temp" \in hour.keys)
    IN  [k \in DOMAIN with_temp |-> with_temp[k].temp]

RECURSIVE sum(_)
sum(s) == IF s = <<>> THEN 0 ELSE Head(s) + sum(Tail(s))

\* Mutant: the mean is cut to the tenth below instead of rounded.
round1_floor(total, n) == total \div n

\* round(total / n, 1) on tenths of a degree: the nearest tenth, a tie going
\* to the even one.
round1(total, n) ==
    LET q == total \div n
        r == total % n
    IN  IF 2 * r > n THEN q + 1
        ELSE IF 2 * r < n THEN q
        ELSE IF q % 2 = 0 THEN q ELSE q + 1

\* Lines 253-259: whether the day gets a point.
HasPoint(raw, d) ==
    /\ Midnight(d) \in DOMAIN raw
    /\ Truthy(raw[Midnight(d)])
    /\ "data" \in raw[Midnight(d)].keys
    /\ Len(raw[Midnight(d)].data) > 0
    /\ TempsForDay(raw[Midnight(d)]) # <<>>
\* Lines 260-263: the point of the day.
DayPoint(raw, d) ==
    LET temps_for_day == TempsForDay(raw[Midnight(d)])
    IN  [Date |-> d, avg |-> round1(sum(temps_for_day), Len(temps_for_day))]

\* The loop of lines 249-268: historical_temps_list.
HistoricalTempsList(raw, s, e) ==
    LET days == [k \in 1 .. (IF e >= s THEN e - s + 1 ELSE 0) |-> s + k - 1]
        kept == SelectSeq(days, LAMBDA d : HasPoint(raw, d))
    IN  [k \in DOMAIN kept |-> DayPoint(raw, kept[k])]

\* Mutant: the latest day first.
sorted_reverse(list) == SortSeq(list, LAMBDA a, b : a.Date > b.Date)

\* sorted(historical_temps_list, key=lambda x: x['Date'])
sorted(list) == SortSeq(list, LAMBDA a, b : a.Date < b.Date)

\* Mutant: an empty list is shown like any other.
EmptyResultMessage_none(list) == "series"

\* Lines 270-275: the chart for a list with points, the warning "No
\* historical temperature data could be retrieved" for an empty one.
EmptyResultMessage(list) == IF list # <<>> THEN "series" ELSE "no_data"

\* Lines 247-275: the series is assembled and shown, or the warning of line
\* 275 is.
Assemble ==
    /\ mpc = "assemble"
    /\ LET historical_temps_list == HistoricalTempsList(raw_data, start_date, end_date)
       IN  /\ historical_temps' = IF historical_temps_list # <<>>
                                  THEN sorted(historical_temps_list) ELSE historical_temps
           /\ st_message' = EmptyResultMessage(historical_temps_list)
           /\ printed' = IF Len(historical_temps_list) < end_date - start_date + 1
                         THEN printed \cup {"day_skipped"} ELSE printed
           /\ history' = Append(history,
                 [coord |-> coord, start_date |-> start_date, end_date |-> end_date,
                  st_message |-> st_message', historical_temps |-> historical_temps',
                  futures |-> futures, weather_cache |-> weather_cache])
    /\ mpc' = "idle"
    /\ UNCHANGED <<clock, ticks, limiterVars, fetchVars, handlerVars, envVars, currentVars, db_calls>>

\* ------------------------------------------------------- current weather
\* What the GET of the onecall endpoint can produce: a snapshot, a snapshot
\* without its time, a bare {"cod": 200}, an error body, an exception.
CurrentResponses == {"ok", "ok_no_dt", "cod_200", "cod_401", "exception"}
OneCall(keys, cod, current) ==
    [kind |-> "dict", keys |-> keys, data |-> <<>>, cod |-> cod, current |-> current]
\* requests.get(onecall_url).json() of line 158, asked at second dt.
OneCallBody(resp, dt) ==
    CASE resp = "ok" ->
            OneCall({"lat", "lon", "current"}, 0, [keys |-> {"dt", "temp"}, dt |-> dt])
      [] resp = "ok_no_dt" ->
            OneCall({"lat", "lon", "current"}, 0, [keys |-> {"temp"}, dt |-> 0])
      [] resp = "cod_200" -> OneCall({"cod"}, 200, [keys |-> {}, dt |-> 0])
      [] OTHER -> OneCall({"cod", "message"}, 401, [keys |-> {}, dt |-> 0])
\* Line 159.
Success(fetched_data) ==
    ("cod" \in fetched_data.keys /\ fetched_data.cod = 200) \/ "current" \in fetched_data.keys
\* Line 161.
SnapshotTs(fetched_data, now) ==
    IF "current" \in fetched_data.keys /\ "dt" \in fetched_data.current.keys
    THEN fetched_data.current.dt
    ELSE time_time(now)

\* Step 3 of the handler for current weather, WeatherApp.py lines 152-164,
\* and the handlers of lines 277-280 when the GET raises.
CurrentWeather(resp) ==
    /\ mpc = "resolved"
    /\ mpc' = "idle"
    /\ \E cached_data \in get_cache(weather_cache, coord, NoTarget, coord, clock) :
         IF Truthy(cached_data)
         THEN /\ weather_data' = cached_data
              /\ st_message' = "current_cached"
              /\ db_calls' = db_calls + 1
              /\ UNCHANGED <<weather_cache, onecall_gets>>
         ELSE /\ onecall_gets' = onecall_gets + 1
              /\ LET fetched_data == OneCallBody(resp, time_time(clock))
                 IN  IF resp = "exception"
                     THEN /\ st_message' = "error"
                          /\ db_calls' = db_calls + 1
                          /\ UNCHANGED <<weather_data, weather_cache>>
                     ELSE IF Success(fetched_data)
                     THEN /\ weather_data' = fetched_data
                          /\ weather_cache' = set_cache(weather_cache, coord, coord,
                                                        fetched_data,
                                                        SnapshotTs(fetched_data, clock), clock)
                          /\ st_message' = "current"
                          /\ db_calls' = db_calls + 2
                     ELSE /\ st_message' = "current_failed"
                          /\ db_calls' = db_calls + 1
                          /\ UNCHANGED <<weather_data, weather_cache>>
    /\ UNCHANGED <<clock, ticks, limiterVars, fetchVars, coord, ranges, budget, utcoffset,
                   start_date, end_date, raw_data, api_fetched_data, st_cache, printed,
                   envVars, historical_temps, history, db_call>>

\* ------------------------------------------------------- specification
Next ==
    \/ \E loc \in LocationInputs, geo \in GeoResponses, c \in Coords : GetWeather(loc, geo, c)
    \/ \E c \in Coords, s \in Days, e \in Days : Request(c, s, e)
    \/ Submit
    \/ \E i \in DOMAIN futures : Work(i)
    \/ \E i \in DOMAIN futures : wait_for_slot(i)
    \/ \E i \in DOMAIN futures : get_historical_weather_for_day(i)
    \/ \E i \in DOMAIN futures : Collect(i)
    \/ Return
    \/ Merge
    \/ Assemble

Spec == Init /\ [][Next]_vars

\* Between two requests the user lets more than an hour pass, while a
\* memoised fetch result is still alive.
UserWaits ==
    /\ mpc = "idle"
    /\ budget > 0
    /\ \E k \in DOMAIN st_cache : MemoAlive(st_cache, k, clock)
    /\ clock' = clock + ttl + 1
    /\ UNCHANGED <<ticks, limiterVars, mpc, fetchVars, handlerVars, printed, envVars, currentVars,
                   sessionVars>>

\* ------------------------------------------------------- a second session
\* Streamlit runs the script of every browser session in a thread of its
\* own; the sessions share the table and the memo of st.cache_data.  The
\* other session runs the same handler; its range fetch works on a
\* RateLimiter, a pool and a results map of its own (lines 78-85), so of
\* that fetch only the returned map is kept here.

\* Lines 171-195 in the other session: its read of the cache.
PeerRequest(c, s, e) ==
    /\ peer.pc = "idle"
    /\ <<s, e>> \in ranges
    /\ LET cached == get_cache_for_range(weather_cache, c, Midnight(s), Midnight(e))
           missing_dates == {d \in s .. e : Midnight(d) \notin DOMAIN cached}
           p == [peer EXCEPT !.coord = c, !.start_date = s, !.end_date = e,
                             !.raw_data = cached]
       IN  peer' = IF missing_dates = {} THEN [p EXCEPT !.pc = "merge"]
                   ELSE IF MemoAlive(st_cache, MemoKey(c, s, e), clock)
                   THEN [p EXCEPT !.pc = "merge",
                                  !.api_fetched_data = st_cache[MemoKey(c, s, e)].value]
                   ELSE [p EXCEPT !.pc = "fetch"]
    /\ UNCHANGED <<clock, ticks, limiterVars, mpc, fetchVars, handlerVars, printed,
                   API_KEY, bodies, currentVars, sessionVars>>

\* The map a range fetch returns when the GET of every dispatched instant
\* answers as `answers` says: the truthy bodies, by instant (lines 87-104).
FetchedMap(instants, answers) ==
    LET n == Min(Len(instants), max_total_calls)
        ok == {i \in 1 .. n : Truthy(FetchResult(instants[i], answers[i]).data)}
    IN  [ts \in {instants[i] : i \in ok} |->
            FetchResult(ts, answers[CHOOSE i \in ok : instants[i] = ts]).data]

\* Lines 223-229 in the other session: its range fetch returns and is
\* memoised.
PeerFetch ==
    /\ peer.pc = "fetch"
    /\ LET instants == AllTimestamps(peer.start_date, peer.end_date)
       IN  \E answers \in [1 .. Min(Len(instants), max_total_calls) -> bodies] :
             /\ peer' = [peer EXCEPT !.pc = "merge",
                                     !.api_fetched_data = FetchedMap(instants, answers)]
             /\ st_cache' = DictSet(st_cache,
                                    MemoKey(peer.coord, peer.start_date, peer.end_date),
                                    [value |-> FetchedMap(instants, answers), at |-> clock])
    /\ UNCHANGED <<clock, ticks, limiterVars, mpc, fetchVars, coord, ranges, budget,
                   utcoffset, start_date, end_date, raw_data, api_fetched_data,
                   weather_cache, printed, API_KEY, bodies, currentVars, sessionVars>>

\* Lines 232-242 in the other session: its merge, under its own label.
PeerMerge ==
    /\ peer.pc = "merge"
    /\ weather_cache' = MergedCache(weather_cache, peer.coord, "peer",
                                    peer.api_fetched_data, peer.raw_data, clock)
    /\ peer' = [peer EXCEPT !.pc = "done",
                            !.raw_data = MergedRaw(peer.api_fetched_data, peer.raw_data)]
    /\ UNCHANGED <<clock, ticks, limiterVars, mpc, fetchVars, coord, ranges, budget,
                   utcoffset, start_date, end_date, raw_data, api_fetched_data, st_cache,
                   printed, API_KEY, bodies, currentVars, sessionVars>>

\* Two sessions ask for overlapping ranges of one coordinate at once.
InitConcurrent ==
    /\ InitState
    /\ Scenario({<<1, 1>>, <<1, 2>>}, 1, {0})
    /\ Environment({"key"}, {"ok", "ok_alt", "net_error"})
NextConcurrent ==
    \/ Next
    \/ \E c \in Coords, s \in Days, e \in Days : PeerRequest(c, s, e)
    \/ PeerFetch
    \/ PeerMerge
SpecConcurrent == InitConcurrent /\ [][NextConcurrent]_vars

\* One request on machines of several time zones: UTC, UTC+5:30, UTC-5 and
\* UTC-12.
InitZones ==
    /\ InitState
    /\ Scenario({<<1, 2>>, <<2, 2>>}, 1, {0, 19800, -18000, -43200})
    /\ Environment({"key"}, {"ok", "ok_alt", "net_error"})
SpecZones == InitZones /\ [][Next]_vars

\* A session of up to MaxRequests requests for ranges of one or two days
\* that overlap, against an endpoint whose days differ.
SeriesRanges == {<<1, 1>>, <<1, 2>>, <<2, 2>>}
InitSeries ==
    /\ InitState
    /\ Scenario(SeriesRanges, MaxRequests, {0})
    /\ Environment({"key"}, SeriesOutcomes)
NextSeries == Next \/ UserWaits
SpecSeries == InitSeries /\ [][NextSeries]_vars

\* A session of up to MaxRequests requests, each for a single day.
InitSession ==
    /\ InitState
    /\ Scenario({<<d, d>> : d \in Days}, MaxRequests, {0})
    /\ Environment({"", "key"}, HttpOutcomes)
SpecSession == InitSession /\ [][Next]_vars

\* One request for three or four days with every thread of the pool, the
\* submitting loop and as_completed scheduled again and again, and every GET
\* answered or failed (requests.get returns or raises, line 41).
InitFair ==
    /\ InitState
    /\ Scenario({<<1, 3>>, <<1, MaxDays>>}, 1, {0})
    /\ Environment({"key"}, {"ok", "net_error"})
Fairness ==
    /\ WF_vars(Submit)
    /\ WF_vars(Return)
    /\ \A i \in 1..max_total_calls :
          /\ WF_vars(Work(i))
          /\ WF_vars(wait_for_slot(i))
          /\ WF_vars(get_historical_weather_for_day(i))
          /\ WF_vars(Collect(i))
SpecFair == InitFair /\ [][Next]_vars /\ Fairness

\* A session whose requests ask for the series of a day or for the current
\* weather of the same coordinate, at once or half a day later.
Fresh(cache, now) ==
    {k \in DOMAIN cache : cache[k].fetch_ts > time_time(now) - CACHE_DURATION_SECONDS}
HalfDayPasses ==
    /\ mpc = "idle"
    /\ budget > 0
    /\ Fresh(weather_cache, clock) # {}
    /\ clock' = clock + CACHE_DURATION_SECONDS * 100
    /\ UNCHANGED <<ticks, limiterVars, mpc, fetchVars, handlerVars, printed, envVars,
                   sessionVars, currentVars>>
InitCurrent ==
    /\ InitState
    /\ Scenario({<<1, 1>>, <<1, 2>>}, MaxRequests, {0})
    /\ Environment({"key"}, {"ok", "net_error"})
NextCurrent ==
    \/ Next
    \/ \E resp \in CurrentResponses : CurrentWeather(resp)
    \/ HalfDayPasses
SpecCurrent == InitCurrent /\ [][NextCurrent]_vars

\* A client of db_cache alone: up to MaxCalls calls of set_cache and
\* get_cache on two coordinates, a second or half a day apart.
CacheCoords == {"c1", "c2"}
PutEntry(c, data, data_ts) ==
    /\ db_calls < MaxCalls
    /\ db_calls' = db_calls + 1
    /\ weather_cache' = set_cache(weather_cache, c, c, data, data_ts, clock)
    /\ db_call' = [op |-> "set_cache", c |-> c, data |-> data, data_ts |-> data_ts,
                   at |-> clock, replaced |-> RowKey(c, data_ts) \in DOMAIN weather_cache]
    /\ UNCHANGED <<clock, ticks, limiterVars, mpc, fetchVars, coord, ranges, budget,
                   utcoffset, start_date, end_date, raw_data, api_fetched_data, st_cache,
                   printed, envVars, st_message, historical_temps, history, weather_data,
                   onecall_gets>>
Lookup(c, target_data_ts, location) ==
    /\ db_calls < MaxCalls
    /\ db_calls' = db_calls + 1
    /\ \E r \in get_cache(weather_cache, c, target_data_ts, location, clock) :
         db_call' = [op |-> "get_cache", c |-> c, target_data_ts |-> target_data_ts,
                     location |-> location, at |-> clock, result |-> r]
    /\ UNCHANGED <<clock, ticks, limiterVars, mpc, fetchVars, handlerVars, printed, envVars,
                   st_message, historical_temps, history, weather_data, onecall_gets>>
LookupRange(c, start_ts, end_ts) ==
    /\ db_calls < MaxCalls
    /\ db_calls' = db_calls + 1
    /\ db_call' = [op |-> "get_cache_for_range", c |-> c, start_ts |-> start_ts,
                   end_ts |-> end_ts, at |-> clock,
                   result |-> get_cache_for_range(weather_cache, c, start_ts, end_ts)]
    /\ UNCHANGED <<clock, ticks, limiterVars, mpc, fetchVars, handlerVars, printed, envVars,
                   st_message, historical_temps, history, weather_data, onecall_gets>>
TimePasses(d) ==
    /\ ticks < MaxWaits
    /\ ticks' = ticks + 1
    /\ clock' = clock + d
    /\ UNCHANGED <<limiterVars, mpc, fetchVars, handlerVars, printed, envVars,
                   sessionVars, currentVars>>
InitCache ==
    /\ InitState
    /\ Scenario({}, 0, {0})
    /\ Environment({"key"}, {"ok"})
\* Bounds a range lookup is made with: the midnights of days 1 and 2, the
\* second after the first, and the second the run starts at.
RangeBounds == {Midnight(1), Midnight(1) + 1, Midnight(2), Epoch}
NextCache ==
    \/ \E c \in CacheCoords, data_ts \in {Midnight(1), Midnight(2), time_time(clock)},
          data \in {JsonBody("ok"), JsonBody("ok_alt"),
                    OneCallBody("ok", time_time(clock))} : PutEntry(c, data, data_ts)
    \/ \E c \in CacheCoords \cup {NoCoord}, location \in CacheCoords \cup {""},
          target_data_ts \in {NoTarget, Midnight(1), Midnight(2)} :
          Lookup(c, target_data_ts, location)
    \/ \E c \in CacheCoords, start_ts \in RangeBounds, end_ts \in RangeBounds :
          LookupRange(c, start_ts, end_ts)
    \/ \E d \in {100, (CACHE_DURATION_SECONDS - 1) * 100} : TimePasses(d)
SpecCache == InitCache /\ [][NextCache]_vars

\* A caller of the range fetch other than the handler, as the __main__ block
\* of historical_data_fetch.py is: it passes an api_key of its own.  Lines
\* 63-81 of the call: the test of line 66 reads the module's API_KEY.
ApiKeys == {"", "key"}
Call(c, s, e, key) ==
    /\ mpc = "idle"
    /\ budget > 0
    /\ <<s, e>> \in ranges
    /\ budget' = budget - 1
    /\ coord' = c
    /\ start_date' = s
    /\ end_date' = e
    /\ api_key' = key
    /\ yielded' = {}
    /\ futures' = <<>>
    /\ results' = EmptyDict
    /\ calls_made' = 0
    /\ idx' = 0
    /\ num_threads' = 0
    /\ api_fetched_data' = EmptyDict
    /\ IF API_KEY = ""
       THEN /\ mpc' = "idle"
            /\ all_timestamps' = <<>>
            /\ rate_limiter' = 0
            /\ printed' = printed \cup {"no_api_key"}
            /\ UNCHANGED limiters
       ELSE /\ mpc' = "submit"
            /\ all_timestamps' = AllTimestamps(s, e)
            /\ limiters' = Append(limiters, NewRateLimiter)
            /\ rate_limiter' = Len(limiters) + 1
            /\ printed' = printed \cup {"timestamp"}
    /\ UNCHANGED <<clock, ticks, admitted, ranges, utcoffset, raw_data, st_cache,
                   weather_cache, envVars, sessionVars, currentVars>>
\* Line 104, the map handed to that caller.
CallReturns ==
    /\ mpc = "collect"
    /\ yielded = DOMAIN futures
    /\ api_fetched_data' = results
    /\ mpc' = "idle"
    /\ UNCHANGED <<clock, ticks, limiterVars, fetchVars, coord, ranges, budget, utcoffset,
                   start_date, end_date, raw_data, st_cache, weather_cache, printed,
                   envVars, sessionVars, currentVars>>
InitDirect ==
    /\ InitState
    /\ Scenario({<<1, 1>>, <<1, 2>>}, MaxRequests, {0})
    /\ Environment(ApiKeys, {"ok", "net_error"})
NextDirect ==
    \/ \E c \in Coords, s \in Days, e \in Days, key \in ApiKeys : Call(c, s, e, key)
    \/ Submit
    \/ \E i \in DOMAIN futures : Work(i)
    \/ \E i \in DOMAIN futures : wait_for_slot(i)
    \/ \E i \in DOMAIN futures : get_historical_weather_for_day(i)
    \/ \E i \in DOMAIN futures : Collect(i)
    \/ CallReturns
SpecDirect == InitDirect /\ [][NextDirect]_vars

\* ------------------------------------------------------- properties
\* The range fetch has returned to the handler (line 104), not the memo.
FetchReturned == mpc = "merge" /\ rate_limiter # 0 /\ all_timestamps # <<>>

\* Timestamps limiter rl has recorded within the trailing window that ends at t.
InWindow(rl, t) ==
    {k \in DOMAIN admitted :
        admitted[k].rl = rl /\ admitted[k].t > t - interval /\ admitted[k].t <= t}

\* C1: on one RateLimiter, the calls admitted with a timestamp inside any
\* trailing window of one interval never exceed calls_per_minute, whatever
\* the interleaving of the threads.
C1_WindowCap ==
    \A k \in DOMAIN admitted :
        Cardinality(InWindow(admitted[k].rl, admitted[k].t)) <= calls_per_minute

\* C2: the window calls_timestamps of every RateLimiter holds at most
\* calls_per_minute timestamps, also right after a call is admitted.
C2_WindowLength ==
    \A rl \in DOMAIN limiters : Len(limiters[rl]) <= calls_per_minute

\* Timestamps recorded by any limiter of the process within the trailing
\* window that ends at t.
InProcessWindow(t) ==
    {k \in DOMAIN admitted : admitted[k].t > t - interval /\ admitted[k].t <= t}

\* C3: the window outlives a range fetch: while a later fetch runs, every
\* call an earlier fetch admitted less than one interval ago is in the
\* window of the limiter in use, so that the cap holds over all the calls of
\* the process.
C3_ProcessLifetimeWindow ==
    /\ \A k \in DOMAIN admitted :
          (/\ mpc \in {"submit", "collect"}
           /\ admitted[k].rl # rate_limiter
           /\ admitted[k].t > clock - interval)
          => admitted[k].t \in Range(limiters[rate_limiter])
    /\ \A k \in DOMAIN admitted :
          Cardinality(InProcessWindow(admitted[k].t)) <= calls_per_minute

\* C4: get_historical_weather_for_day never raises: every finished call
\* returned a pair carrying the instant it was given.
C4_NeverRaises ==
    \A i \in DOMAIN futures :
        futures[i].pc = "done" =>
            futures[i].res.kind = "ret" /\ futures[i].res.ts = futures[i].ts

HandlerDone == mpc = "idle" /\ budget = 0

\* C5: a 200 response without the data field counts as a failed fetch: once
\* the request is over, neither the map the range fetch returned nor the
\* cache holds a record without data.
C5_NoDataIsFailure ==
    HandlerDone =>
        /\ \A ts \in DOMAIN api_fetched_data : "data" \in api_fetched_data[ts].keys
        /\ \A k \in DOMAIN weather_cache :
              "data" \in json_loads(weather_cache[k].data).keys

\* C6: the range fetch dispatches one call for each of the first
\* min(n, max_total_calls) instants, in input order, and none for a later
\* one; no call issues more than one GET and no instant is fetched twice.
C6_DispatchCeiling ==
    /\ Len(futures) <= Min(Len(all_timestamps), max_total_calls)
    /\ mpc \in {"collect", "merge"} =>
          Len(futures) = Min(Len(all_timestamps), max_total_calls)
    /\ \A i \in DOMAIN futures :
          /\ futures[i].ts = all_timestamps[i]
          /\ futures[i].gets <= 1
          /\ \A j \in DOMAIN futures : futures[j].ts = futures[i].ts => j = i
C6_Witness ==
    /\ FetchReturned
    /\ Len(all_timestamps) > max_total_calls
    /\ Len(futures) = max_total_calls
    /\ \A i \in DOMAIN futures : futures[i].gets = 1

\* Messages the range fetch and its calls write (lines 45, 74, 99, 101, 103).
FetchMessages == {"fetch_error", "timestamp", "skip", "timeout", "future_exc"}
Truncated == Len(all_timestamps) > max_total_calls
Processed == {all_timestamps[i] : i \in 1 .. Min(Len(all_timestamps), max_total_calls)}
\* Something handed to the caller that a fetch of the processed instants
\* alone would not hand over: another message, or an entry of the map that
\* is no processed instant.
TruncationSignal ==
    \/ printed \ FetchMessages # {}
    \/ DOMAIN api_fetched_data \ Processed # {}

C8_PoolBound ==
    /\ Cardinality(RunningSet) <= max_workers
    /\ \A i \in DOMAIN futures : futures[i].rl = rate_limiter
C8_Witness ==
    /\ Cardinality(RunningSet) = max_workers
    /\ Queued # {}
    /\ \E i \in RunningSet : futures[i].pc = "http"
    /\ \E i \in RunningSet : futures[i].pc \in LimiterPcs

Succeeded == {i \in DOMAIN futures :
                 futures[i].res.kind = "ret" /\ Truthy(futures[i].res.data)}
\* The map of the successful calls among S, by instant.
ResultsOf(S) ==
    [ts \in {futures[i].ts : i \in Succeeded \cap S} |->
        futures[CHOOSE i \in Succeeded \cap S : futures[i].ts = ts].res.data]

C10_OrderIndependent == results = ResultsOf(yielded)
\* A later submitted call was handed over, and counted, before an earlier one
\* that has succeeded too.
C10_Witness ==
    /\ mpc = "collect"
    /\ \E i \in Succeeded \ yielded :
          \E j \in Succeeded \cap yielded : i < j /\ futures[j].ts \in DOMAIN results

\* Days of the requested range the cache did not hold when it was read
\* (lines 187-195); the in-memory map is the cache's answer until the merge.
MissingDays == {d \in start_date .. end_date : Midnight(d) \notin DOMAIN raw_data}
FetchRunning == mpc \in {"submit", "collect"}

\* C11: the instants handed to the range fetch are exactly the noon instants
\* of the days of the range that the cache does not hold; no call is
\* dispatched for a day that is cached.
C11_GapComputation ==
    FetchRunning =>
        /\ Range(all_timestamps) = {Noon(d) : d \in MissingDays}
        /\ \A i \in DOMAIN futures : UtcDate(futures[i].ts) \in MissingDays

\* C12: a row the cache holds is never rewritten by the fetch pipeline: it
\* holds the same record, label and fetch time after every step, also when
\* the endpoint returned other data for its day; the merge writes absent
\* keys only.
C12_MergeSafety ==
    [][\A k \in DOMAIN weather_cache :
          k \in DOMAIN weather_cache' /\ weather_cache'[k] = weather_cache[k]]_vars
\* The merge is over, and the endpoint had returned, for a cached day, a
\* record other than the cached one, which the cache still holds.
C12_Witness ==
    /\ mpc = "assemble"
    /\ \E ts \in DOMAIN api_fetched_data :
          /\ DbKey(ts) \in DOMAIN raw_data
          /\ raw_data[DbKey(ts)] # api_fetched_data[ts]
          /\ RowKey(coord, DbKey(ts)) \in DOMAIN weather_cache
          /\ json_loads(weather_cache[RowKey(coord, DbKey(ts))].data) = raw_data[DbKey(ts)]

\* C13: with two requests for overlapping ranges of one coordinate running
\* at once, a row one of them has written is never written again by the
\* other: its record and the label of its writer stay.
C13_NoConcurrentOverwrite ==
    [][\A k \in DOMAIN weather_cache :
          /\ k \in DOMAIN weather_cache'
          /\ weather_cache'[k].loc = weather_cache[k].loc
          /\ weather_cache'[k].data = weather_cache[k].data]_vars

\* Requests k and k + 1 of the session were made with the same arguments.
SameArguments(k) ==
    /\ history[k + 1].coord = history[k].coord
    /\ history[k + 1].start_date = history[k].start_date
    /\ history[k + 1].end_date = history[k].end_date
SameOutput(k) ==
    /\ history[k + 1].historical_temps = history[k].historical_temps
    /\ history[k + 1].st_message = history[k].st_message
NoNetworkCalls(k) == \A i \in DOMAIN history[k].futures : history[k].futures[i].gets = 0
\* Request k left a row in the cache for every day of its range.
FullCacheHit(k) ==
    \A d \in history[k].start_date .. history[k].end_date :
        RowKey(history[k].coord, Midnight(d)) \in DOMAIN history[k].weather_cache

\* C14 as stated: of two successive requests with the same arguments (the
\* cache is not touched in between) the second shows the same output as the
\* first and issues no network call.
C14_Idempotent ==
    \A k \in 1 .. Len(history) - 1 :
        SameArguments(k) => SameOutput(k) /\ NoNetworkCalls(k + 1)
\* C14 as amended: so it is when the first request left every day of the
\* range in the cache, the second being a full cache hit.
C14_IdempotentOnFullHit ==
    \A k \in 1 .. Len(history) - 1 :
        (SameArguments(k) /\ FullCacheHit(k)) => SameOutput(k) /\ NoNetworkCalls(k + 1)
\* A request that fetched and filled the cache was repeated, after more than
\* an hour.
C14_Witness ==
    /\ Len(history) = 2
    /\ SameArguments(1)
    /\ FullCacheHit(1)
    /\ history[1].futures # <<>>
    /\ history[1].historical_temps # <<>>
    /\ clock > ttl

\* C15: the series shown is in strictly ascending order of date, so without
\* a date twice, and every date lies in the requested range.
C15_SeriesOrdered ==
    /\ \A i \in DOMAIN historical_temps : \A j \in DOMAIN historical_temps :
          i < j => historical_temps[i].Date < historical_temps[j].Date
    /\ \A i \in DOMAIN historical_temps :
          start_date <= historical_temps[i].Date /\ historical_temps[i].Date <= end_date
C15_Witness ==
    /\ mpc = "idle"
    /\ st_message = "series"
    /\ Len(historical_temps) >= 2

\* The request has run to the end of the series assembly.
SeriesDone == mpc = "idle" /\ st_message \in {"series", "no_data"}
Dates(series) == {series[i].Date : i \in DOMAIN series}
\* Temperatures of the samples of a record that carry one.
ValidTemps(rec) ==
    IF "data" \in rec.keys
    THEN {k \in DOMAIN rec.data : "temp" \in rec.data[k].keys} ELSE {}
RECURSIVE Total(_, _)
Total(rec, S) ==
    IF S = {} THEN 0
    ELSE LET k == CHOOSE x \in S : TRUE IN rec.data[k].temp + Total(rec, S \ {k})
\* a is a value nearest to total / n.
Nearest(a, total, n) ==
    LET diff == a * n - total IN 2 * (IF diff < 0 THEN -diff ELSE diff) <= n

\* C16: a day of the range has a point exactly when its record is present
\* and has a sample with a temperature; the value of the point is the mean
\* of those temperatures rounded to a tenth; a day without such a sample
\* has no point and raises no error.
C16_AverageComputation ==
    SeriesDone =>
        /\ \A d \in start_date .. end_date :
              d \in Dates(historical_temps) <=>
                 /\ Midnight(d) \in DOMAIN raw_data
                 /\ ValidTemps(raw_data[Midnight(d)]) # {}
        /\ \A i \in DOMAIN historical_temps :
              LET rec == raw_data[Midnight(historical_temps[i].Date)]
              IN  Nearest(historical_temps[i].avg, Total(rec, ValidTemps(rec)),
                          Cardinality(ValidTemps(rec)))
C16_Witness ==
    /\ SeriesDone
    /\ \E d \in start_date .. end_date :
          /\ Midnight(d) \in DOMAIN raw_data
          /\ raw_data[Midnight(d)].data # <<>>
          /\ ValidTemps(raw_data[Midnight(d)]) = {}
    /\ \E i \in DOMAIN historical_temps :
          /\ raw_data[Midnight(historical_temps[i].Date)].data = SamplesAlt
          /\ historical_temps[i].avg = 117

\* The canonical key of a day: the timestamp of its midnight in UTC.
DayKey(d) == d * 86400
\* Request k found no row and every day of its range was fetched with
\* success, its record having samples with a temperature.
AllFetched(k) ==
    /\ \A j \in 1 .. k - 1 : history[j].weather_cache = EmptyDict
    /\ \A d \in history[k].start_date .. history[k].end_date :
          \E i \in DOMAIN history[k].futures :
             /\ history[k].futures[i].ts = Noon(d)
             /\ history[k].futures[i].res.kind = "ret"
             /\ ValidTemps(history[k].futures[i].res.data) # {}

\* C17: after a request on an empty cache whose days were all fetched with
\* success, the cache holds one row per day of the range and no other,
\* under the day's canonical key and with the record fetched for the day,
\* and the series has a point per day.
C17_OneEntryPerDay ==
    \A k \in DOMAIN history :
        AllFetched(k) =>
            LET h == history[k]
                range == h.start_date .. h.end_date
            IN  /\ DOMAIN h.weather_cache = {RowKey(h.coord, DayKey(d)) : d \in range}
                /\ \A d \in range : \A i \in DOMAIN h.futures :
                      h.futures[i].ts = Noon(d) =>
                         json_loads(h.weather_cache[RowKey(h.coord, DayKey(d))].data)
                            = h.futures[i].res.data
                /\ Dates(h.historical_temps) = range
                /\ Len(h.historical_temps) = Cardinality(range)

\* The cache as request k found it.
CacheBefore(k) == IF k = 1 THEN EmptyDict ELSE history[k - 1].weather_cache
Usable(rec) == ValidTemps(rec) # {}
CachedUsable(k, d) ==
    /\ RowKey(history[k].coord, Midnight(d)) \in DOMAIN CacheBefore(k)
    /\ Usable(json_loads(CacheBefore(k)[RowKey(history[k].coord, Midnight(d))].data))
FetchedUsable(k, d) ==
    /\ RowKey(history[k].coord, Midnight(d)) \notin DOMAIN CacheBefore(k)
    /\ \E i \in DOMAIN history[k].futures :
          /\ history[k].futures[i].ts = Noon(d)
          /\ history[k].futures[i].res.kind = "ret"
          /\ Usable(history[k].futures[i].res.data)
SomeFetchFailed(k) ==
    \E i \in DOMAIN history[k].futures :
        \/ history[k].futures[i].res.kind = "exc"
        \/ ~Truthy(history[k].futures[i].res.data)

\* C18: day fetches that fail never abort the request: once the fetch has
\* been started the handler shows no error and ends with the series or the
\* no-data warning, the series holding a point for every cached day and
\* every fetched day with a usable sample.
C18_FailuresLeaveGaps ==
    /\ mpc \in {"submit", "collect", "merge", "assemble"} => st_message = "none"
    /\ \A k \in DOMAIN history :
          /\ history[k].st_message \in {"series", "no_data"}
          /\ \A d \in history[k].start_date .. history[k].end_date :
                (CachedUsable(k, d) \/ FetchedUsable(k, d))
                   => d \in Dates(history[k].historical_temps)
C18_Witness ==
    /\ Len(history) = 2
    /\ SomeFetchFailed(2)
    /\ \E d \in history[2].start_date .. history[2].end_date : CachedUsable(2, d)
    /\ \E d \in history[2].start_date .. history[2].end_date : FetchedUsable(2, d)
    /\ Len(history[2].historical_temps) = 2

\* What the handler shows when it stops with an error.
HardErrors == {"no_location", "no_api_key", "bad_gps", "not_found", "error"}

\* C19: a request whose days all end without a point shows the no-data
\* warning, which is neither an error nor a series, and shows it in no
\* other case.
C19_NoDataCondition ==
    /\ \A k \in DOMAIN history :
          /\ history[k].historical_temps = <<>> <=> history[k].st_message = "no_data"
          /\ history[k].historical_temps # <<>> <=> history[k].st_message = "series"
    /\ st_message = "no_data" => historical_temps = <<>> /\ mpc = "idle"
    /\ st_message \in HardErrors => historical_temps = <<>>
C19_Witness ==
    /\ st_message = "no_data"
    /\ futures # <<>>
    /\ \A i \in DOMAIN futures : futures[i].gets = 1

\* The handler has stopped before any work on the cache or a fetch.
ResolutionFailures == {"no_location", "bad_gps", "not_found", "error"}
AbortStep == mpc = "idle" /\ mpc' = "idle" /\ budget' < budget

\* C20 as stated: the handler stops before the cache and fetch work only
\* when the location cannot be resolved.
C20_OnlyResolutionAborts == st_message \in HardErrors => st_message \in ResolutionFailures
\* C20 as amended: the handler stops before the cache and fetch work when
\* the location cannot be resolved or the API key is missing, and in no
\* other case; a request that stops so reads and writes no row and fetches
\* nothing, and one that goes on has coordinates and a key.
C20_AbortsBeforeCacheWork ==
    /\ [](st_message \in HardErrors =>
             st_message \in ResolutionFailures \/ (st_message = "no_api_key" /\ API_KEY = ""))
    /\ [](mpc # "idle" => coord \in Coords /\ API_KEY # "")
    /\ [][AbortStep => /\ st_message' \in HardErrors
                        /\ UNCHANGED <<weather_cache, db_calls, st_cache, fetchVars>>]_vars
    /\ [][db_calls' # db_calls => mpc \in {"resolved", "merge"}]_vars
C20_Witness ==
    /\ Len(history) = 1
    /\ history[1].weather_cache # EmptyDict
    /\ st_message = "not_found"
    /\ weather_cache = history[1].weather_cache
    /\ budget = 0

\* The handler is past its read of the cache (line 179).
CacheRead == mpc \in {"submit", "collect", "merge", "assemble"}

\* C23: every key the historical pipeline reads from or writes to the cache
\* is the midnight-UTC timestamp of a calendar day and never a noon instant,
\* and the key derived from a returned instant is the key the gap
\* computation used for the day.
C23_KeysNeverConflated ==
    /\ \A k \in DOMAIN weather_cache :
          /\ \E d \in Days : k[2] = DayKey(d)
          /\ \A d \in Days : k[2] # Noon(d)
    /\ CacheRead =>
          /\ Midnight(start_date) = DayKey(start_date)
          /\ Midnight(end_date) = DayKey(end_date)
          /\ \A k \in DOMAIN raw_data : \E d \in Days : k = DayKey(d)
    /\ \A d \in Days : DbKey(Noon(d)) = Midnight(d)

\* The call is out of wait_for_slot, by return or otherwise.
AdmitOver(i) == futures[i].pc \in {"http", "done"}

\* C24: a call of wait_for_slot ends by returning, and when it has ended
\* the call has recorded exactly one timestamp in the window.
C24_AdmitReturnsRecorded ==
    \A i \in DOMAIN futures :
        AdmitOver(i) => futures[i].res.kind # "exc" /\ futures[i].slots = 1

\* Timestamps of window w that are less than an interval old at time now.
Trimmed(w, now) == {k \in DOMAIN w : ~Expired(w[k], now)}

\* C25: a timestamp is recorded only while the window, trimmed of the
\* timestamps an interval old, holds fewer than calls_per_minute: no call is
\* admitted while the trimmed window is full.
C25_AdmitOnlyWithRoom ==
    [][\A rl \in DOMAIN limiters :
          (rl \in DOMAIN limiters' /\ Len(limiters'[rl]) > Len(limiters[rl])) =>
              Cardinality(Trimmed(limiters[rl], limiters'[rl][Len(limiters'[rl])]))
                 < calls_per_minute]_vars

\* C28: the timestamps of a window are in non-decreasing order from front
\* to back in every reachable state.
C28_WindowSorted ==
    \A rl \in DOMAIN limiters :
        \A i \in DOMAIN limiters[rl] : \A j \in DOMAIN limiters[rl] :
            i < j => limiters[rl][i] <= limiters[rl][j]

\* C26: a call issues its GET only after its wait_for_slot has returned,
\* and at most one GET, so the GETs of a range fetch never outnumber the
\* timestamps its RateLimiter has recorded.
C26_GetAfterAdmit ==
    /\ \A i \in DOMAIN futures :
          /\ futures[i].gets <= 1
          /\ futures[i].gets <= futures[i].slots
          /\ futures[i].pc = "http" => futures[i].slots = 1
    /\ Cardinality({i \in DOMAIN futures : futures[i].gets > 0})
          <= Cardinality({k \in DOMAIN admitted : admitted[k].rl = rate_limiter})
\* One call has made its GET, one is about to, and one has left
\* wait_for_slot by an exception without a GET.
C26_Witness ==
    /\ \E i \in DOMAIN futures : futures[i].gets = 1 /\ futures[i].slots = 1
    /\ \E i \in DOMAIN futures : futures[i].pc = "http"
    /\ \E i \in DOMAIN futures : futures[i].res.kind = "exc" /\ futures[i].gets = 0

\* C27: the range fetch returns only when every call it dispatched has run
\* to completion, and a running range fetch does return once every GET has
\* returned or failed.
C27_ReturnsAfterAllCalls ==
    /\ [](FetchReturned => \A i \in DOMAIN futures : i \in Done /\ i \in yielded)
    /\ (FetchRunning ~> mpc = "merge")
\* A fetch of three calls has returned after one of them failed and after a
\* full interval went by.
C27_Witness ==
    /\ FetchReturned
    /\ Len(futures) = max_total_calls
    /\ clock >= interval
    /\ \E i \in DOMAIN futures : futures[i].res = Returned(futures[i].ts, None)

\* Age in seconds, at the call db_call, of row k.
AgeAtCall(k) == time_time(db_call.at) - weather_cache[k].fetch_ts
\* Rows of the call's coordinate.
RowsOfCall == {k \in DOMAIN weather_cache : k[1] = db_call.c}

\* C21: a lookup with a day key returns the entry of that key whatever its
\* age; a lookup without one returns an entry only if it was fetched less
\* than 12 hours before, and then one no other such entry is newer than.
C21_ExpiryOnlyWithoutKey ==
    (db_call.op = "get_cache" /\ db_call.c # NoCoord) =>
        LET k == RowKey(db_call.c, db_call.target_data_ts)
        IN  /\ (db_call.target_data_ts # NoTarget /\ k \in DOMAIN weather_cache) =>
                  db_call.result = json_loads(weather_cache[k].data)
            /\ (db_call.target_data_ts # NoTarget /\ k \notin DOMAIN weather_cache) =>
                  db_call.result = None
            /\ (db_call.target_data_ts = NoTarget /\ db_call.result # None) =>
                  \E j \in RowsOfCall :
                      /\ db_call.result = json_loads(weather_cache[j].data)
                      /\ AgeAtCall(j) < 43200
                      /\ \A i \in RowsOfCall :
                            AgeAtCall(i) < 43200 =>
                                weather_cache[i].fetch_ts <= weather_cache[j].fetch_ts
            /\ (db_call.target_data_ts = NoTarget /\ db_call.result = None) =>
                  \A j \in RowsOfCall : AgeAtCall(j) >= 43200
\* A lookup by day key returned an entry that is 12 hours old or older.
C21_Witness ==
    /\ db_call.op = "get_cache"
    /\ db_call.c # NoCoord
    /\ db_call.target_data_ts # NoTarget
    /\ db_call.result # None
    /\ AgeAtCall(RowKey(db_call.c, db_call.target_data_ts)) >= 43200

\* C22: a set_cache leaves exactly one row under its key (lat, lon, data_ts),
\* holding the record it was given, adds no other row and changes no other.
C22_Upsert ==
    [][(db_call'.op = "set_cache" /\ db_calls' # db_calls) =>
          LET k == RowKey(db_call'.c, db_call'.data_ts)
          IN  /\ DOMAIN weather_cache' = DOMAIN weather_cache \cup {k}
              /\ Cardinality({j \in DOMAIN weather_cache' : j[1] = k[1] /\ j[2] = k[2]}) = 1
              /\ weather_cache'[k].data.text
              /\ json_loads(weather_cache'[k].data) = db_call'.data
              /\ weather_cache'[k].fetch_ts = time_time(db_call'.at)
              /\ \A j \in DOMAIN weather_cache \ {k} :
                    weather_cache'[j] = weather_cache[j]]_vars
\* A put has replaced the row of its key with another record while another
\* key holds a row.
C22_Witness ==
    /\ db_call.op = "set_cache"
    /\ db_call.replaced
    /\ Cardinality(DOMAIN weather_cache) >= 2
    /\ \E j \in DOMAIN weather_cache :
          json_loads(weather_cache[j].data) # db_call.data

\* Rows of the coordinate under the midnight of a day: what the merge of the
\* historical branch writes.
DayRows == {k \in DOMAIN weather_cache : k[1] = coord /\ \E d \in Days : k[2] = Midnight(d)}

\* C30: what a current-weather lookup serves from the cache is never the
\* record of a row the historical branch stored under a day key.
C30_CurrentNeverDayRecord ==
    (mpc = "idle" /\ st_message = "current_cached") =>
        \A k \in DayRows : weather_data # json_loads(weather_cache[k].data)

\* Days of finished request h whose call came back absent: it raised, or
\* returned None or an empty body.
FailedDays(h) ==
    {d \in h.start_date .. h.end_date :
        \E i \in DOMAIN h.futures :
            /\ h.futures[i].ts = Noon(d)
            /\ h.futures[i].pc = "done"
            /\ ~Truthy(h.futures[i].res.data)}
\* The row of day d of request h in the cache the request left behind.
DayCached(h, d) == RowKey(h.coord, Midnight(d)) \in DOMAIN h.weather_cache
\* A request writes no row for a day whose call came back absent.
AbsentNotWritten ==
    \A n \in DOMAIN history : \A d \in FailedDays(history[n]) :
        DayCached(history[n], d) => (n > 1 /\ DayCached(history[n - 1], d))
\* The next request over such a day dispatches a call for it again.
AbsentFetchedAgain ==
    \A n \in DOMAIN history : \A d \in FailedDays(history[n]) :
        (/\ n < Len(history)
         /\ ~DayCached(history[n], d)
         /\ history[n + 1].coord = history[n].coord
         /\ d \in history[n + 1].start_date .. history[n + 1].end_date)
        => \E i \in DOMAIN history[n + 1].futures : history[n + 1].futures[i].ts = Noon(d)
\* Every row holds a non-empty body that a call for the row's day returned.
OnlyFetchedWritten ==
    mpc = "idle" =>
        \A k \in DOMAIN weather_cache :
            \E n \in DOMAIN history : \E i \in DOMAIN history[n].futures :
                /\ history[n].futures[i].res.kind = "ret"
                /\ Truthy(history[n].futures[i].res.data)
                /\ json_loads(weather_cache[k].data) = history[n].futures[i].res.data
                /\ k = RowKey(history[n].coord, DbKey(history[n].futures[i].ts))

\* C29: a day whose call came back absent is not written to the cache, the
\* next request over that day fetches it again, and only returned bodies
\* are ever written.
C29_AbsentRetried ==
    /\ AbsentNotWritten
    /\ AbsentFetchedAgain
    /\ OnlyFetchedWritten

\* The step of the current-weather flow, lines 152-164.
CurrentStep == mpc = "resolved" /\ mpc' = "idle"
\* Rows of the coordinate fetched within the last 12 hours that hold a
\* current-weather snapshot: rows under no day key.
FreshSnapshots ==
    {k \in Fresh(weather_cache, clock) :
        k[1] = coord /\ \A d \in Days : k[2] # Midnight(d)}
\* The flow with no GET and no write; with one GET, a write only of a
\* success and none after a failure.
ServedFromCache == onecall_gets' = onecall_gets /\ weather_cache' = weather_cache
FetchedOnce ==
    /\ onecall_gets' = onecall_gets + 1
    /\ weather_cache' # weather_cache =>
          (st_message' = "current" /\ Success(weather_data'))
    /\ st_message' \in {"current_failed", "error"} => weather_cache' = weather_cache

\* C31: when a snapshot of the coordinate fetched within 12 hours is cached
\* the flow makes no GET and writes nothing; otherwise it makes exactly one
\* GET and writes only the result of a successful response.
C31_HitOrOneCall ==
    [][CurrentStep => IF FreshSnapshots # {} THEN ServedFromCache ELSE FetchedOnce]_vars
\* The same with a miss taken as: no row of the coordinate is that fresh.
HitOrOneCall_anyRow ==
    [][CurrentStep =>
          IF \E k \in Fresh(weather_cache, clock) : k[1] = coord
          THEN ServedFromCache ELSE FetchedOnce]_vars

\* A call of the range fetch has been made and has returned.
CallOver == mpc = "idle" /\ start_date # 0
\* It returned {} having built no RateLimiter, submitted no call and made no GET.
ShortCircuited ==
    /\ api_fetched_data = EmptyDict
    /\ rate_limiter = 0
    /\ futures = <<>>

\* C32: the range fetch returns an empty map with no rate limiter, no worker
\* and no GET exactly when the api_key it was called with is empty; with a
\* key it never does, and without one it never starts work.
C32_ShortCircuitOnArgument ==
    /\ CallOver => (ShortCircuited <=> api_key = "")
    /\ mpc \in {"submit", "collect"} => api_key # ""
\* The same with the key of the process's environment in place of the argument.
ShortCircuitOnEnvironment ==
    /\ CallOver => (ShortCircuited <=> API_KEY = "")
    /\ mpc \in {"submit", "collect"} => API_KEY # ""

\* Rows of the coordinate of the call db_call whose data_ts lies within the
\* bounds of the call and whose data column holds a text.
RowsInRange ==
    {k \in DOMAIN weather_cache :
        /\ k[1] = db_call.c
        /\ k[2] >= db_call.start_ts
        /\ k[2] <= db_call.end_ts
        /\ weather_cache[k].data # NoText}

\* C33: get_cache_for_range returns, keyed by data_ts, exactly the records of
\* the rows of its coordinate with start <= data_ts <= end and a non-empty
\* data column: no row of another coordinate and none outside the bounds.
C33_RangeExactly ==
    db_call.op = "get_cache_for_range" =>
        /\ \A k \in RowsInRange :
              /\ k[2] \in DOMAIN db_call.result
              /\ db_call.result[k[2]] = weather_cache[k].data.value
        /\ \A ts \in DOMAIN db_call.result : <<db_call.c, ts>> \in RowsInRange
\* A range lookup returned a record while the other coordinate holds another
\* record under the same data_ts.
C33_Witness ==
    /\ db_call.op = "get_cache_for_range"
    /\ \E k \in DOMAIN weather_cache :
          /\ k[1] # db_call.c
          /\ k[2] \in DOMAIN db_call.result
          /\ weather_cache[k].data.value # db_call.result[k[2]]

====
